---------------------------- MODULE Spec2Model ----------------------------
(***************************************************************************)
(* Model of .github/scripts/sync_folders.py: the reconciliation of a NEW   *)
(* tree of per-locale PNG screenshots into an OLD tree (sync_all,          *)
(* sync_locale), the directory enumerators and the masked perceptual-hash  *)
(* image comparison (same_except_time).                                    *)
(*                                                                         *)
(* The filesystem is a function from paths (sequences of names) to nodes.  *)
(* A path starts with the name of one of the two roots, "old" or "new".    *)
(*                                                                         *)
(* Model of .github/scripts/retrieve_screenshots.py: the download loop of  *)
(* process over the locales eligible_locales selects from the Pontoon      *)
(* project, and the extraction of each archive (safe_extract_zip).         *)
(***************************************************************************)
EXTENDS Integers, Sequences, FiniteSets, TLC

VARIABLES
    fs,          \* the filesystem: path -> [kind, data]
    fs0,         \* the filesystem when the current run of sync_all began
    pc,          \* position of sync_all: idle, running, done, raised
    run,         \* number of runs of sync_all started so far
    todo_old,    \* locales the first loop of sync_all has still to process
    todo_new,    \* locales the second loop of sync_all has still to process
    stats_list,  \* sync_all's local stats_list
    totals,      \* sync_all's local totals
    warnings,    \* sync_all's local warnings
    log,         \* filesystem mutations issued by the current run, in order
    result,      \* what the caller of sync_all received (NoResult before / on raise)
    old_png,     \* image oracle: content of the first file
    new_png,     \* image oracle: content of the second file
    verdict,     \* image oracle: outcome of same_except_time, or "none"
    project,     \* retrieve: what the Pontoon project URL answers
    rpc,         \* position of process: idle, looping, done, raised
    elig,        \* process's local elig
    rest,        \* locales the loop of process has still to handle
    processed,   \* process's local processed
    not_found,   \* process's local not_found
    failed,      \* process's local failed: <<locale, reason>> pairs
    out,         \* output_dir: locale folder -> files extracted into it
    outcomes,    \* what happened to each download so far, in order
    summary      \* what the caller of process received (NoSummary before)

vars == <<fs, fs0, pc, run, todo_old, todo_new, stats_list, totals, warnings,
          log, result, old_png, new_png, verdict, project, rpc, elig, rest,
          processed, not_found, failed, out, outcomes, summary>>

syncVars == <<fs, fs0, pc, run, todo_old, todo_new, stats_list, totals,
              warnings, log, result>>

imgVars == <<old_png, new_png, verdict>>

retrVars == <<project, rpc, elig, rest, processed, not_found, failed, out,
              outcomes, summary>>

(***************************************************************************)
(* Python strings: a name is a TLA+ string; Chars gives its characters,    *)
(* CharCode their code points (str comparison and sorted() go by code      *)
(* point), LowerChar what str.lower() does to one character.               *)
(***************************************************************************)
Chars(n) ==
    CASE n = "a"      -> <<"a">>
      [] n = "b"      -> <<"b">>
      [] n = ".h"     -> <<".", "h">>
      [] n = "p.png"  -> <<"p", ".", "p", "n", "g">>
      [] n = "Q.PNG"  -> <<"Q", ".", "P", "N", "G">>
      [] n = "r.png"  -> <<"r", ".", "p", "n", "g">>
      [] n = ".s.png" -> <<".", "s", ".", "p", "n", "g">>
      [] n = "t.txt"  -> <<"t", ".", "t", "x", "t">>
      [] n = "old"    -> <<"o", "l", "d">>
      [] n = "new"    -> <<"n", "e", "w">>
      [] n = "de"     -> <<"d", "e">>
      [] n = "ga-IE"  -> <<"g", "a", "-", "I", "E">>
      [] n = "sat"    -> <<"s", "a", "t">>

CharCode(c) ==
    CASE c = "-" -> 45 [] c = "." -> 46 [] c = "E" -> 69 [] c = "G" -> 71
      [] c = "I" -> 73 [] c = "N" -> 78 [] c = "P" -> 80
      [] c = "Q" -> 81 [] c = "a" -> 97 [] c = "b" -> 98 [] c = "d" -> 100
      [] c = "e" -> 101 [] c = "g" -> 103 [] c = "h" -> 104 [] c = "l" -> 108
      [] c = "n" -> 110 [] c = "o" -> 111 [] c = "p" -> 112 [] c = "q" -> 113
      [] c = "r" -> 114 [] c = "s" -> 115 [] c = "t" -> 116 [] c = "w" -> 119
      [] c = "x" -> 120

LowerChar(c) ==
    CASE c = "G" -> "g" [] c = "N" -> "n" [] c = "P" -> "p" [] c = "Q" -> "q"
      [] OTHER -> c

RECURSIVE SeqLess(_, _)
\* s < t for two character sequences, as Python orders two str
SeqLess(s, t) ==
    IF t = <<>> THEN FALSE
    ELSE IF s = <<>> THEN TRUE
    ELSE IF CharCode(Head(s)) # CharCode(Head(t))
         THEN CharCode(Head(s)) < CharCode(Head(t))
    ELSE SeqLess(Tail(s), Tail(t))

StrLess(a, b) == SeqLess(Chars(a), Chars(b))

RECURSIVE Sorted(_)
\* sorted(S) for a set of names: ascending by code point
Sorted(S) ==
    IF S = {} THEN <<>>
    ELSE LET m == CHOOSE x \in S : \A y \in S \ {x} : StrLess(x, y)
         IN  <<m>> \o Sorted(S \ {m})

\* Path.name.startswith(".")
is_hidden_path(n) == Chars(n)[1] = "."

\* the index of the last "." of a character sequence, 0 when there is none
LastDot(cs) ==
    LET D == {i \in 1..Len(cs) : cs[i] = "."}
    IN  IF D = {} THEN 0 ELSE CHOOSE i \in D : \A j \in D : j <= i

\* Path.suffix.lower(): the part from the last dot on, when that dot is neither
\* the first nor the last character of the name; the empty string otherwise
LowerSuffix(n) ==
    LET cs == Chars(n)
        i  == LastDot(cs)
    IN  IF 1 < i /\ i < Len(cs)
        THEN [k \in 1..(Len(cs) - i + 1) |-> LowerChar(cs[i + k - 1])]
        ELSE <<>>

(***************************************************************************)
(* Images.  A decodable file holds a size and its pixels; Corrupt is a     *)
(* file Image.open cannot decode.  A colour is a palette name, RGB its     *)
(* channels.                                                               *)
(***************************************************************************)
Corrupt == [size |-> <<0, 0>>, px |-> <<>>]

Palette == {"black", "white", "red", "gray"}

RGB(c) ==
    CASE c = "black" -> <<0, 0, 0>>
      [] c = "white" -> <<255, 255, 255>>
      [] c = "red"   -> <<255, 0, 0>>
      [] c = "gray"  -> <<76, 76, 76>>

\* Image.convert("L") inside imagehash.phash: the ITU-R 601-2 luma transform
Luma(c) ==
    LET v == RGB(c)
    IN  (v[1] * 19595 + v[2] * 38470 + v[3] * 7471 + 32768) \div 65536

\* TOP_IGNORE_PCT = 0.06 and LEFT_IGNORE_PCT = 0.26, in hundredths
TOP_IGNORE_PCT == 6
LEFT_IGNORE_PCT == 26

\* the box pasted black by masked_phash: (int(w*0.1), int(h*0.02), left, top)
MaskBox(w, h) ==
    [x0 |-> (w * 10) \div 100, y0 |-> (h * 2) \div 100,
     x1 |-> (w * LEFT_IGNORE_PCT) \div 100, y1 |-> (h * TOP_IGNORE_PCT) \div 100]

InMask(w, h, x, y) ==
    LET b == MaskBox(w, h)
    IN  b.x0 <= x /\ x < b.x1 /\ b.y0 <= y /\ y < b.y1

\* masked = im.copy(); masked.paste((0, 0, 0), box)
Masked(im) ==
    [im EXCEPT !.px = [q \in DOMAIN im.px |->
        IF InMask(im.size[1], im.size[2], q[1], q[2]) THEN "black" ELSE im.px[q]]]

RECURSIVE SumLuma(_, _)
SumLuma(px, Q) ==
    IF Q = {} THEN 0
    ELSE LET q == CHOOSE q \in Q : TRUE
         IN  Luma(px[q]) + SumLuma(px, Q \ {q})

\* One cell of the grayscale image scaled down to 2 x 2: the mean of the block
\* of pixels that falls into cell (i, j), i, j in 0..1.
Cell(im, i, j) ==
    LET w == im.size[1]
        h == im.size[2]
        Q == {q \in DOMAIN im.px :
                 /\ (q[1] * 2) \div w = i
                 /\ (q[2] * 2) \div h = j}
    IN  SumLuma(im.px, Q) \div Cardinality(Q)

\* imagehash.phash at hash size 2: the 2 x 2 DCT-II of the scaled-down image
\* (coefficients times 1000, sqrt 2 taken as 1.414), each coefficient compared
\* with the median of the four.
PHash(im) ==
    LET a == Cell(im, 0, 0)
        b == Cell(im, 1, 0)
        c == Cell(im, 0, 1)
        d == Cell(im, 1, 1)
        dct == << 4000 * (a + b + c + d),
                  2828 * ((a - b) + (c - d)),
                  2828 * ((a + b) - (c + d)),
                  2000 * ((a - b) - (c - d)) >>
        \* twice the median: the sum of the two middle values
        med2 == CHOOSE m \in {dct[i] + dct[j] : i, j \in 1..4} :
                   \E i, j \in 1..4 :
                      /\ i # j
                      /\ m = dct[i] + dct[j]
                      /\ \E k, l \in 1..4 :
                            /\ {i, j, k, l} = 1..4
                            /\ dct[k] <= dct[i] /\ dct[k] <= dct[j]
                            /\ dct[l] >= dct[i] /\ dct[l] >= dct[j]
    IN  [k \in 1..4 |-> 2 * dct[k] > med2]

masked_phash(im) == PHash(Masked(im))

\* ImageHash.__sub__: the number of differing bits
HashDistance(h1, h2) == Cardinality({k \in DOMAIN h1 : h1[k] # h2[k]})

same_except_time_fuzzy(a, b) ==
    IF a = Corrupt \/ b = Corrupt THEN [raised |-> TRUE, value |-> FALSE]
    ELSE IF a.size # b.size THEN [raised |-> FALSE, value |-> FALSE]
    ELSE [raised |-> FALSE,
          value  |-> HashDistance(masked_phash(a), masked_phash(b)) <= 1]

\* same_except_time: raises when a file does not decode; False when the sizes
\* differ; otherwise whether the two masked hashes are at distance 0
same_except_time(a, b) ==
    IF a = Corrupt \/ b = Corrupt THEN [raised |-> TRUE, value |-> FALSE]
    ELSE IF a.size # b.size THEN [raised |-> FALSE, value |-> FALSE]
    ELSE [raised |-> FALSE,
          value  |-> HashDistance(masked_phash(a), masked_phash(b)) = 0]


(***************************************************************************)
(* The filesystem.                                                         *)
(***************************************************************************)
OLD_ROOT == <<"old">>
NEW_ROOT == <<"new">>
NoPath == <<>>

DirNode == [kind |-> "dir", data |-> "-"]
FileNode(d) == [kind |-> "file", data |-> d]

\* what the bytes of a file decode to
Content(d) ==
    LET base == [size |-> <<4, 18>>,
                 px   |-> [q \in (0..3) \X (0..17) |-> "black"]]
    IN  CASE d = "A"   -> base
          [] d = "A2"  -> [base EXCEPT !.px[<<0, 0>>] = "white"]
          [] d = "B"   -> [base EXCEPT !.px[<<3, 0>>] = "white"]
          [] d = "bad" -> Corrupt

DataIds == {"A", "A2", "B", "bad"}

\* same_except_time on the files' contents, tabulated once per pair of contents
Compared == [p \in DataIds \X DataIds |->
                same_except_time(Content(p[1]), Content(p[2]))]

Parent(p) == SubSeq(p, 1, Len(p) - 1)
Name(p) == p[Len(p)]

exists(f, p) == p \in DOMAIN f
is_dir(f, p) == p \in DOMAIN f /\ f[p].kind = "dir"
is_file(f, p) == p \in DOMAIN f /\ f[p].kind = "file"

\* Path.iterdir()
iterdir(f, p) == {q \in DOMAIN f : Len(q) = Len(p) + 1 /\ Parent(q) = p}

Put(f, p, node) == [q \in DOMAIN f \cup {p} |-> IF q = p THEN node ELSE f[q]]
Remove(f, p) == [q \in DOMAIN f \ {p} |-> f[q]]

Op(op, path, src) == [op |-> op, path |-> path, src |-> src, kind |-> "-"]

\* the names of the non-hidden directories directly under root, sorted
iter_locale_dirs(f, root) ==
    IF ~exists(f, root) THEN <<>>
    ELSE Sorted({Name(q) : q \in {c \in iterdir(f, root) :
                                     is_dir(f, c) /\ ~is_hidden_path(Name(c))}})

iter_png_files_any_suffix(f, folder) ==
    IF ~exists(f, folder) THEN <<>>
    ELSE Sorted({Name(q) : q \in {c \in iterdir(f, folder) :
                                     is_file(f, c) /\ ~is_hidden_path(Name(c))}})

\* the names of the regular, non-hidden files with suffix .png (any case)
\* directly under folder, sorted
iter_png_files(f, folder) ==
    IF ~exists(f, folder) THEN <<>>
    ELSE Sorted({Name(q) : q \in {c \in iterdir(f, folder) :
                                     /\ is_file(f, c)
                                     /\ ~is_hidden_path(Name(c))
                                     /\ LowerSuffix(Name(c)) = <<".", "p", "n", "g">>}})

RECURSIVE mkdir(_, _)
\* Path.mkdir(parents=True, exist_ok=True): creates the missing ancestors, then
\* the directory; raises when the path (or an ancestor) exists and is no directory
mkdir(f, p) ==
    IF p = <<>> THEN [fs |-> f, log |-> <<>>, err |-> FALSE]
    ELSE IF exists(f, p)
         THEN [fs |-> f, log |-> <<>>, err |-> ~is_dir(f, p)]
    ELSE LET r == mkdir(f, Parent(p))
         IN  IF r.err THEN r
             ELSE [fs  |-> Put(r.fs, p, DirNode),
                   log |-> Append(r.log, Op("mkdir", p, NoPath)),
                   err |-> FALSE]

\* shutil.copy2(src, dst): into dst when dst is a directory, under src's name
copy2(f, src, dst) ==
    LET target == IF is_dir(f, dst) THEN dst \o <<Name(src)>> ELSE dst
    IN  IF ~is_file(f, src) \/ is_dir(f, target)
        THEN [fs |-> f, log |-> <<>>, err |-> TRUE]
        ELSE [fs  |-> Put(f, target, FileNode(f[src].data)),
              log |-> <<Op("copy", target, src)>>,
              err |-> FALSE]

copy_file_swapped(src, dst, f) ==
    LET c == copy2(f, dst, src)
    IN  IF c.err THEN [fs |-> f, log |-> <<>>, err |-> FALSE] ELSE c

\* copy_file(src, dst): dst.parent.mkdir(parents=True, exist_ok=True), copy2
copy_file(src, dst, f) ==
    LET m == mkdir(f, Parent(dst))
    IN  IF m.err THEN m
        ELSE LET c == copy2(m.fs, src, dst)
             IN  [fs |-> c.fs, log |-> m.log \o c.log, err |-> c.err]

\* remove_file(p): unlink; a file that is already gone is not an error
remove_file(p, f) ==
    IF ~exists(f, p) THEN [fs |-> f, log |-> <<>>, err |-> FALSE]
    ELSE IF is_dir(f, p) THEN [fs |-> f, log |-> <<>>, err |-> TRUE]
    ELSE [fs  |-> Remove(f, p),
          log |-> <<Op("unlink", p, NoPath)>>,
          err |-> FALSE]

(***************************************************************************)
(* sync_locale.                                                            *)
(***************************************************************************)
LocaleStats(locale) ==
    [locale |-> locale, changed |-> 0, added |-> 0, removed |-> 0,
     removed_files |-> <<>>, missing_in_new |-> FALSE]

Totals == [changed |-> 0, added |-> 0, removed |-> 0]

\* f"{old_loc.name}/{name}"
QualifiedName(locale, name) == Chars(locale) \o <<"/">> \o Chars(name)

\* the operations of one call, labelled with the loop that issued them
Tagged(ops, kind) == [i \in DOMAIN ops |-> [ops[i] EXCEPT !.kind = kind]]

\* the state of a call in progress: filesystem, operations issued, whether an
\* exception is propagating, and the LocaleStats being filled
Acc(f, st) == [fs |-> f, log |-> <<>>, err |-> FALSE, st |-> st]

Applied(acc, r, kind, st) ==
    [fs  |-> r.fs,
     log |-> acc.log \o Tagged(r.log, kind),
     err |-> r.err,
     st  |-> IF r.err THEN acc.st ELSE st]

RECURSIVE sync_changed(_, _, _, _)
\* 1) for name in sorted(old_files.keys() & new_files.keys())
sync_changed(acc, names, old_loc, new_loc) ==
    IF names = <<>> \/ acc.err THEN acc
    ELSE LET name     == Head(names)
             old_path == old_loc \o <<name>>
             new_path == new_loc \o <<name>>
             same     == Compared[<<acc.fs[old_path].data, acc.fs[new_path].data>>]
             next     ==
                 IF same.raised THEN [acc EXCEPT !.err = TRUE]
                 ELSE IF same.value THEN acc
                 ELSE Applied(acc, copy_file(new_path, old_path, acc.fs), "changed",
                              [acc.st EXCEPT !.changed = @ + 1])
         IN  sync_changed(next, Tail(names), old_loc, new_loc)

RECURSIVE sync_removed(_, _, _)
\* 2) for name in sorted(old_files.keys() - new_files.keys())
sync_removed(acc, names, old_loc) ==
    IF names = <<>> \/ acc.err THEN acc
    ELSE LET name     == Head(names)
             old_path == old_loc \o <<name>>
             next     ==
                 Applied(acc, remove_file(old_path, acc.fs), "removed",
                         [acc.st EXCEPT
                            !.removed = @ + 1,
                            !.removed_files =
                                Append(@, QualifiedName(Name(old_loc), name))])
         IN  sync_removed(next, Tail(names), old_loc)

RECURSIVE sync_added(_, _, _, _)
\* 3) for name in sorted(new_files.keys() - old_files.keys())
sync_added(acc, names, old_loc, new_loc) ==
    IF names = <<>> \/ acc.err THEN acc
    ELSE LET name     == Head(names)
             new_path == new_loc \o <<name>>
             dst      == old_loc \o <<name>>
             next     ==
                 Applied(acc, copy_file(new_path, dst, acc.fs), "added",
                         [acc.st EXCEPT !.added = @ + 1])
         IN  sync_added(next, Tail(names), old_loc, new_loc)

Range(s) == {s[i] : i \in DOMAIN s}

sync_locale_no_early_return(f, old_loc, new_loc) ==
    LET nl        == IF new_loc = NoPath THEN NEW_ROOT \o <<Name(old_loc)>> ELSE new_loc
        old_files == Range(iter_png_files(f, old_loc))
        new_files == Range(iter_png_files(f, nl))
        a1 == sync_changed(Acc(f, LocaleStats(Name(old_loc))),
                           Sorted(old_files \cap new_files), old_loc, nl)
        a2 == sync_removed(a1, Sorted(old_files \ new_files), old_loc)
    IN  sync_added(a2, Sorted(new_files \ old_files), old_loc, nl)

sync_locale_removed_first(f, old_loc, new_loc) ==
    IF new_loc = NoPath \/ ~exists(f, new_loc)
    THEN Acc(f, [LocaleStats(Name(old_loc)) EXCEPT !.missing_in_new = TRUE])
    ELSE LET old_files == Range(iter_png_files(f, old_loc))
             new_files == Range(iter_png_files(f, new_loc))
             a1 == sync_removed(Acc(f, LocaleStats(Name(old_loc))),
                                Sorted(old_files \ new_files), old_loc)
             a2 == sync_changed(a1, Sorted(old_files \cap new_files),
                                old_loc, new_loc)
         IN  sync_added(a2, Sorted(new_files \ old_files), old_loc, new_loc)

\* sync_locale(old_loc, new_loc); new_loc = NoPath stands for None
sync_locale(f, old_loc, new_loc) ==
    IF new_loc = NoPath \/ ~exists(f, new_loc)
    THEN Acc(f, [LocaleStats(Name(old_loc)) EXCEPT !.missing_in_new = TRUE])
    ELSE LET old_files == Range(iter_png_files(f, old_loc))
             new_files == Range(iter_png_files(f, new_loc))
             a1 == sync_changed(Acc(f, LocaleStats(Name(old_loc))),
                                Sorted(old_files \cap new_files), old_loc, new_loc)
             a2 == sync_removed(a1, Sorted(old_files \ new_files), old_loc)
         IN  sync_added(a2, Sorted(new_files \ old_files), old_loc, new_loc)


(***************************************************************************)
(* sync_all, one action per loop iteration.                                *)
(***************************************************************************)
NoResult == [returned |-> FALSE, stats_list |-> <<>>, totals |-> Totals,
             warnings |-> <<>>]

\* new_locales as sync_all captured it when the run began
new_locales == Range(iter_locale_dirs(fs0, NEW_ROOT))

\* f"Locale folder missing in NEW (kept as-is): {locale}"
Warning(locale) == <<"Locale folder missing in NEW (kept as-is): ", locale>>

AddTotals_no_removed(t, st) ==
    [changed |-> t.changed + st.changed,
     added   |-> t.added + st.added,
     removed |-> t.removed]

\* totals.changed += st.changed; totals.added += ...; totals.removed += ...
AddTotals(t, st) ==
    [changed |-> t.changed + st.changed,
     added   |-> t.added + st.added,
     removed |-> t.removed + st.removed]

\* totals.added += st.added
AddAdded(t, st) == [t EXCEPT !.added = @ + st.added]

\* sync_all is called (by main or directly): the two enumerations and the
\* initialisation of its locals.  It is run at most twice in succession.
Begin ==
    /\ pc \in {"idle", "done", "raised"}
    /\ run < 2
    /\ run' = run + 1
    /\ fs0' = fs
    /\ todo_old' = Sorted(Range(iter_locale_dirs(fs, OLD_ROOT)))
    /\ todo_new' = Sorted(Range(iter_locale_dirs(fs, NEW_ROOT))
                          \ Range(iter_locale_dirs(fs, OLD_ROOT)))
    /\ stats_list' = <<>>
    /\ warnings' = <<>>
    /\ totals' = Totals
    /\ log' = <<>>
    /\ result' = NoResult
    /\ pc' = "running"
    /\ UNCHANGED <<fs, imgVars, retrVars>>

\* one iteration of "for locale in sorted(old_locales.keys())"
SyncOldLocale ==
    /\ pc = "running"
    /\ todo_old # <<>>
    /\ LET locale  == Head(todo_old)
           old_loc == OLD_ROOT \o <<locale>>
           new_loc == IF locale \in new_locales
                      THEN NEW_ROOT \o <<locale>> ELSE NoPath
       IN  \E r \in {sync_locale(fs, old_loc, new_loc)} :
           /\ fs' = r.fs
           /\ log' = log \o r.log
           /\ IF r.err
              THEN /\ pc' = "raised"
                   /\ UNCHANGED <<todo_old, stats_list, totals, warnings>>
              ELSE /\ pc' = pc
                   /\ todo_old' = Tail(todo_old)
                   /\ stats_list' = Append(stats_list, r.st)
                   /\ totals' = AddTotals(totals, r.st)
                   /\ warnings' = IF r.st.missing_in_new
                                  THEN Append(warnings, Warning(locale))
                                  ELSE warnings
    /\ UNCHANGED <<fs0, run, todo_new, result, imgVars, retrVars>>

RECURSIVE copy_all(_, _, _, _)
\* for png in iter_png_files(new_loc): copy_file(png, old_loc / png.name)
copy_all(acc, names, old_loc, new_loc) ==
    IF names = <<>> \/ acc.err THEN acc
    ELSE LET name == Head(names)
             next == Applied(acc,
                             copy_file(new_loc \o <<name>>, old_loc \o <<name>>,
                                       acc.fs),
                             "bootstrap",
                             [acc.st EXCEPT !.added = @ + 1])
         IN  copy_all(next, Tail(names), old_loc, new_loc)

\* one iteration of "for locale in sorted(new_locales.keys() - old_locales.keys())"
BootstrapLocale ==
    /\ pc = "running"
    /\ todo_old = <<>>
    /\ todo_new # <<>>
    /\ LET locale  == Head(todo_new)
           new_loc == NEW_ROOT \o <<locale>>
           old_loc == OLD_ROOT \o <<locale>>
           m       == mkdir(fs, old_loc)
           made    == [fs  |-> m.fs, log |-> Tagged(m.log, "bootstrap"),
                       err |-> m.err, st  |-> LocaleStats(locale)]
       IN  \E r \in {copy_all(made, iter_png_files(m.fs, new_loc),
                             old_loc, new_loc)} :
           /\ fs' = r.fs
           /\ log' = log \o r.log
           /\ IF r.err
              THEN /\ pc' = "raised"
                   /\ UNCHANGED <<todo_new, stats_list, totals>>
              ELSE /\ pc' = pc
                   /\ todo_new' = Tail(todo_new)
                   /\ stats_list' = Append(stats_list, r.st)
                   /\ totals' = AddAdded(totals, r.st)
    /\ UNCHANGED <<fs0, run, todo_old, warnings, result, imgVars, retrVars>>

\* return stats_list, totals, warnings
Return ==
    /\ pc = "running"
    /\ todo_old = <<>>
    /\ todo_new = <<>>
    /\ result' = [returned |-> TRUE, stats_list |-> stats_list,
                  totals |-> totals, warnings |-> warnings]
    /\ pc' = "done"
    /\ UNCHANGED <<fs, fs0, run, todo_old, todo_new, stats_list, totals,
                   warnings, log, imgVars, retrVars>>

\* a call of same_except_time on two files
Compare ==
    /\ verdict = "none"
    /\ LET r == same_except_time(old_png, new_png)
       IN  verdict' = IF r.raised THEN "raised"
                      ELSE IF r.value THEN "same" ELSE "different"
    /\ UNCHANGED <<old_png, new_png, syncVars, retrVars>>

Next == Begin \/ SyncOldLocale \/ BootstrapLocale \/ Return

ImgNext == Compare

(***************************************************************************)
(* retrieve_screenshots.py.  A JSON value carries its type; a response is  *)
(* what session.get gives for one artifact URL; an archive is the list of  *)
(* its member names, each a sequence of path components.                   *)
(***************************************************************************)
JStr(s) == [type |-> "str", s |-> s, n |-> 0]
JInt(n) == [type |-> "int", s |-> "", n |-> n]
JBool(b) == [type |-> "bool", s |-> "", n |-> IF b THEN 1 ELSE 0]
JNull == [type |-> "null", s |-> "", n |-> 0]

\* isinstance(v, str)
IsStr(v) == v.type = "str"

\* isinstance(v, int): bool is a subclass of int
IsInt(v) == v.type \in {"int", "bool"}

\* an element of `localizations` that is a dict with a dict under "locale"
Localization(code, approved) ==
    [is_dict |-> TRUE, locale_is_dict |-> TRUE, code |-> code,
     approved_strings |-> approved]

\* an element of `localizations` that is not a dict
NotADict ==
    [is_dict |-> FALSE, locale_is_dict |-> FALSE, code |-> JNull,
     approved_strings |-> JNull]

\* an element of `localizations` whose "locale" is not a dict
NoLocale ==
    [is_dict |-> TRUE, locale_is_dict |-> FALSE, code |-> JNull,
     approved_strings |-> JInt(2)]

\* the project before anything is known of it: get_json would raise
NoProject == [ok |-> FALSE, is_list |-> FALSE, localizations |-> <<>>]

\* eligible_locales(project_json): [raised, value]
eligible_locales(project_json) ==
    IF ~project_json.is_list THEN [raised |-> TRUE, value |-> <<>>]
    ELSE LET eligible ==
                 {e.code.s : e \in {x \in Range(project_json.localizations) :
                      /\ x.is_dict
                      /\ x.locale_is_dict
                      /\ IsStr(x.code) /\ x.code.s # ""
                      /\ IsInt(x.approved_strings)
                      /\ x.approved_strings.n > 0}}
         IN  [raised |-> FALSE, value |-> Sorted(eligible)]

\* locale_mapping.get(locale, locale)
locale_mapping(locale) ==
    CASE locale = "ga-IE"     -> "ga"
      [] locale = "nb-NO"     -> "nb"
      [] locale = "nn-NO"     -> "nn"
      [] locale = "sat"       -> "sat-Olck"
      [] locale = "sv-SE"     -> "sv"
      [] locale = "templates" -> "en"
      [] locale = "tl"        -> "fil"
      [] locale = "zgh"       -> "tzm"
      [] OTHER                -> locale

\* Python's None where bytes are expected
None == [is_none |-> TRUE, is_zip |-> FALSE, encrypted |-> FALSE,
         members |-> <<>>]

\* a bytes object: a zip archive with these members, or not an archive
Bytes(is_zip, encrypted, members) ==
    [is_none |-> FALSE, is_zip |-> is_zip, encrypted |-> encrypted,
     members |-> members]

\* what session.get does: raises RequestException, or answers
RequestError == [error |-> TRUE, status_code |-> 0, content |-> None]
Response(status_code, content) ==
    [error |-> FALSE, status_code |-> status_code, content |-> content]

\* download_zip(session, url), given what session.get does: [raised,
\* status, payload]
download_zip(r) ==
    IF r.error THEN [raised |-> TRUE, status |-> 0, payload |-> None]
    ELSE IF r.status_code = 200
         THEN [raised |-> FALSE, status |-> 200, payload |-> r.content]
    ELSE [raised |-> FALSE, status |-> r.status_code, payload |-> None]

RECURSIVE resolve(_, _)
\* (base / filename).resolve(), relative to base: ".." takes the last
\* component away, and stays in front once the path has left base
resolve(done, todo) ==
    IF todo = <<>> THEN done
    ELSE IF Head(todo) = ".."
         THEN IF done = <<>> \/ done[Len(done)] = ".."
              THEN resolve(Append(done, ".."), Tail(todo))
              ELSE resolve(SubSeq(done, 1, Len(done) - 1), Tail(todo))
    ELSE resolve(Append(done, Head(todo)), Tail(todo))

\* target.is_relative_to(base)
is_relative_to_base(filename) ==
    LET target == resolve(<<>>, filename)
    IN  target = <<>> \/ target[1] # ".."

\* where ZipFile.extractall puts a member: ".." components are dropped
ExtractedName(filename) == SelectSeq(filename, LAMBDA c : c # "..")

\* safe_extract_zip(zip_bytes, dest_dir) on the output directory o, where
\* dest_dir is named by its locale: [exc, out]
safe_extract_zip(zip_bytes, dest_dir, o, disk) ==
    IF disk = "mkdir_fails" THEN [exc |-> "OSError", out |-> o]
    ELSE LET o1 == IF dest_dir \in DOMAIN o THEN o ELSE o @@ (dest_dir :> {})
         IN  IF ~zip_bytes.is_zip THEN [exc |-> "BadZipFile", out |-> o1]
             ELSE IF \E i \in DOMAIN zip_bytes.members :
                        ~is_relative_to_base(zip_bytes.members[i])
                  THEN [exc |-> "ZipSlipError", out |-> o1]
             ELSE IF zip_bytes.encrypted
                  THEN [exc |-> "RuntimeError", out |-> o1]
             ELSE IF disk = "write_fails"
                  THEN [exc |-> "OSError", out |-> o1]
             ELSE [exc |-> "none",
                   out |-> [o1 EXCEPT ![dest_dir] =
                               @ \cup {ExtractedName(zip_bytes.members[i]) :
                                          i \in DOMAIN zip_bytes.members}]]

\* str(status)
StatusText(status) ==
    CASE status = 200 -> "200" [] status = 404 -> "404"
      [] status = 500 -> "500"

\* an element of failed: (locale, f"{reason}: {detail}")
Failure(locale, reason, detail) ==
    [locale |-> locale, reason |-> reason, detail |-> detail]

\* the locals of process during the loop
Locals(p, n, f, o) ==
    [processed |-> p, not_found |-> n, failed |-> f, out |-> o,
     raised |-> FALSE]

\* the loop body without the `continue` of the 404 branch
process_locale_no_continue(st, locale, r, disk) ==
    LET d == download_zip(r)
    IN  IF d.raised
        THEN [st EXCEPT !.failed = Append(@,
                 Failure(locale, "request error", "RequestException"))]
        ELSE LET s1 == IF d.status = 404
                       THEN [st EXCEPT !.not_found = Append(@, locale)]
                       ELSE st
             IN  IF d.status # 200 \/ d.payload.is_none
                 THEN [s1 EXCEPT !.failed = Append(@,
                          Failure(locale, "unexpected HTTP status",
                                  StatusText(d.status)))]
                 ELSE LET x == safe_extract_zip(d.payload, locale, st.out, disk)
                      IN  IF x.exc = "none"
                          THEN [s1 EXCEPT !.processed = Append(@, locale),
                                          !.out = x.out]
                          ELSE IF x.exc \in {"BadZipFile", "OSError",
                                             "ZipSlipError"}
                               THEN [s1 EXCEPT !.failed = Append(@,
                                        Failure(locale, "extract error", x.exc)),
                                               !.out = x.out]
                          ELSE [s1 EXCEPT !.raised = TRUE, !.out = x.out]

\* the body of "for locale in elig", given what session.get and the disk do
process_locale(st, locale, r, disk) ==
    LET d == download_zip(r)
    IN  IF d.raised
        THEN [st EXCEPT !.failed = Append(@,
                 Failure(locale, "request error", "RequestException"))]
        ELSE IF d.status = 404
             THEN [st EXCEPT !.not_found = Append(@, locale)]
        ELSE IF d.status # 200 \/ d.payload.is_none
             THEN [st EXCEPT !.failed = Append(@,
                      Failure(locale, "unexpected HTTP status",
                              StatusText(d.status)))]
        ELSE LET x == safe_extract_zip(d.payload, locale, st.out, disk)
             IN  IF x.exc = "none"
                 THEN [st EXCEPT !.processed = Append(@, locale),
                                 !.out = x.out]
                 ELSE IF x.exc \in {"BadZipFile", "OSError", "ZipSlipError"}
                      THEN [st EXCEPT !.failed = Append(@,
                               Failure(locale, "extract error", x.exc)),
                                      !.out = x.out]
                 ELSE [st EXCEPT !.raised = TRUE, !.out = x.out]

\* what happened to one download: the request raised, the status, or how
\* the extraction of the payload ended
Outcome(locale, r, disk, o) ==
    IF r.error THEN "request exception"
    ELSE IF r.status_code = 404 THEN "404"
    ELSE IF r.status_code # 200 THEN "other status"
    ELSE LET x == safe_extract_zip(r.content, locale, o, disk)
         IN  IF x.exc = "none" THEN "extracted" ELSE x.exc

NoSummary ==
    [returned |-> FALSE, eligible_locales |-> <<>>, processed_locales |-> <<>>,
     not_found_locales |-> <<>>, failed_locales |-> <<>>]

\* the archives a 200 answer may carry
Archives ==
    {Bytes(FALSE, FALSE, <<>>),
     Bytes(TRUE, FALSE, << <<"s.png">> >>),
     Bytes(TRUE, FALSE, << <<"d", "..", "s.png">> >>),
     Bytes(TRUE, FALSE, << <<"s.png">>, <<"..", "x.png">> >>),
     Bytes(TRUE, TRUE, << <<"s.png">> >>)}

\* what session.get may do for an artifact URL
Responses ==
    {RequestError, Response(404, None), Response(500, None)}
    \cup {Response(200, z) : z \in Archives}

\* what the disk may do during an extraction
Disks == {"ok", "mkdir_fails", "write_fails"}

\* process is called: the session, get_json and eligible_locales
Fetch ==
    /\ rpc = "idle"
    /\ LET e == eligible_locales(project)
       IN  IF ~project.ok \/ e.raised
           THEN rpc' = "raised" /\ UNCHANGED <<elig, rest>>
           ELSE rpc' = "looping" /\ elig' = e.value /\ rest' = e.value
    /\ processed' = <<>>
    /\ not_found' = <<>>
    /\ failed' = <<>>
    /\ UNCHANGED <<project, out, outcomes, summary, syncVars, imgVars>>

\* one iteration of "for locale in elig"
HandleLocale ==
    /\ rpc = "looping"
    /\ rest # <<>>
    /\ \E r \in Responses, disk \in Disks :
          \E st \in {process_locale(Locals(processed, not_found, failed, out),
                                    Head(rest), r, disk)} :
             /\ processed' = st.processed
             /\ not_found' = st.not_found
             /\ failed' = st.failed
             /\ out' = st.out
             /\ rpc' = IF st.raised THEN "raised" ELSE "looping"
             /\ outcomes' = Append(outcomes,
                               [locale |-> Head(rest),
                                artifact |-> locale_mapping(Head(rest)),
                                kind |-> Outcome(Head(rest), r, disk, out)])
    /\ rest' = Tail(rest)
    /\ UNCHANGED <<project, elig, summary, syncVars, imgVars>>

\* return Summary(...)
Summarise ==
    /\ rpc = "looping"
    /\ rest = <<>>
    /\ summary' = [returned |-> TRUE, eligible_locales |-> elig,
                   processed_locales |-> processed,
                   not_found_locales |-> not_found,
                   failed_locales |-> failed]
    /\ rpc' = "done"
    /\ UNCHANGED <<project, elig, rest, processed, not_found, failed, out,
                   outcomes, syncVars, imgVars>>

RetrNext == Fetch \/ HandleLocale \/ Summarise

\* process has not been called
RetrIdle ==
    /\ rpc = "idle"
    /\ elig = <<>>
    /\ rest = <<>>
    /\ processed = <<>>
    /\ not_found = <<>>
    /\ failed = <<>>
    /\ out = <<>>
    /\ outcomes = <<>>
    /\ summary = NoSummary

(***************************************************************************)
(* The initial trees.                                                      *)
(***************************************************************************)
MaxTreeFiles == 2
MaxLocaleFiles == 4

LocaleNames == {"a", "b", ".h"}
FileNames == {"p.png", "Q.PNG", "r.png", ".s.png", "t.txt"}
TreeFileNames == {"p.png", "Q.PNG", "t.txt"}

\* what an entry of a locale folder may be, on either side
EntryOptions ==
    [old |-> {FileNode("A"), DirNode},
     new |-> {FileNode("A2"), FileNode("B"), FileNode("bad")}]

PartialFunctions(D, R) == UNION {[S -> R] : S \in SUBSET D}

\* the functions from at most k slots to the nodes each slot may hold
\* (slots are <<side, locale, name>>; options gives the nodes of a side)
Entries(slots, options, k) ==
    UNION {{g \in [S -> options.old \cup options.new] :
               \A q \in S : g[q] \in options[q[1]]}
           : S \in {T \in SUBSET slots : Cardinality(T) <= k}}

\* a tree from the entries of each root (name -> node; none for a root that
\* does not exist) and the entries of the locale folders
MakeTree(present, roots, files) ==
    LET P == {<<s>> : s \in {t \in {"old", "new"} : present[t]}}
             \cup {<<s, l>> : s \in {"old", "new"}, l \in LocaleNames}
             \cup DOMAIN files
        Q == {q \in P : \/ Len(q) = 1
                        \/ Len(q) = 2 /\ q[2] \in DOMAIN roots[q[1]]
                        \/ Len(q) = 3}
    IN  [q \in Q |-> IF Len(q) = 1 THEN DirNode
                     ELSE IF Len(q) = 2 THEN roots[q[1]][q[2]]
                     ELSE files[q]]

RootEntries == {r \in PartialFunctions(LocaleNames, {DirNode, FileNode("A")}) :
                   ".h" \in DOMAIN r => r[".h"] = DirNode}

TreeOptions ==
    [old |-> {FileNode("A")}, new |-> {FileNode("B"), FileNode("bad")}]

\* the slots of a tree whose roots hold ro and rn: the files a locale folder
\* of either side may hold
TreeSlots(ro, rn) ==
    {q \in {"old", "new"} \X {"a", "b"} \X TreeFileNames :
        LET r == IF q[1] = "old" THEN ro ELSE rn
        IN  q[2] \in DOMAIN r /\ r[q[2]] = DirNode}

\* trees of any shape at the root with at most MaxTreeFiles files in them
TreeFamily(f) ==
    \E pr \in [{"old", "new"} -> BOOLEAN] :
      \E ro \in (IF pr.old THEN RootEntries ELSE {<<>>}),
         rn \in (IF pr.new THEN RootEntries ELSE {<<>>}) :
        \E g \in Entries(TreeSlots(ro, rn), TreeOptions, MaxTreeFiles) :
           f = MakeTree(pr, [old |-> ro, new |-> rn], g)

\* trees with locale "a" on both sides and at most MaxLocaleFiles entries in
\* its two folders
LocaleFamily(f) ==
    \E g \in Entries({"old", "new"} \X {"a"} \X FileNames,
                     EntryOptions, MaxLocaleFiles) :
       f = MakeTree([old |-> TRUE, new |-> TRUE],
                    [old |-> [l \in {"a"} |-> DirNode],
                     new |-> [l \in {"a"} |-> DirNode]], g)

SyncIdle ==
    /\ fs0 = fs
    /\ pc = "idle"
    /\ run = 0
    /\ todo_old = <<>>
    /\ todo_new = <<>>
    /\ stats_list = <<>>
    /\ totals = Totals
    /\ warnings = <<>>
    /\ log = <<>>
    /\ result = NoResult

Init ==
    /\ TreeFamily(fs) \/ LocaleFamily(fs)
    /\ SyncIdle
    /\ old_png = Corrupt
    /\ new_png = Corrupt
    /\ verdict = "none"
    /\ project = NoProject
    /\ RetrIdle

Spec == Init /\ [][Next]_vars

(***************************************************************************)
(* The inputs of the image oracle: a few base images, each with at most    *)
(* one pixel repainted, and a file that does not decode.                   *)
(***************************************************************************)
Uniform(w, h, c) ==
    [size |-> <<w, h>>, px |-> [q \in (0..(w - 1)) \X (0..(h - 1)) |-> c]]

LeftHalf(w, h, c, d) ==
    [size |-> <<w, h>>,
     px   |-> [q \in (0..(w - 1)) \X (0..(h - 1)) |->
                  IF 2 * q[1] < w THEN c ELSE d]]

BaseImages ==
    {Uniform(4, 18, "black"), LeftHalf(4, 18, "white", "black"),
     Uniform(4, 20, "black")}

\* <<0, 0>> lies inside the masked box of a 4 x 18 and of a 4 x 20 image,
\* the other three outside it
EditPositions == {<<0, 0>>, <<1, 0>>, <<3, 0>>, <<1, 17>>}

ImageInputs ==
    {[b EXCEPT !.px[q] = c] : b \in BaseImages, q \in EditPositions, c \in Palette}
    \cup {Corrupt}

ImgInit ==
    /\ fs = MakeTree([old |-> TRUE, new |-> TRUE], [old |-> <<>>, new |-> <<>>], <<>>)
    /\ SyncIdle
    /\ old_png \in ImageInputs
    /\ new_png \in ImageInputs
    /\ verdict = "none"
    /\ project = NoProject
    /\ RetrIdle

ImgSpec == ImgInit /\ [][ImgNext]_vars

(***************************************************************************)
(* The answers of the Pontoon project URL: a failed request, a project     *)
(* whose `localizations` is not a list, or a list of at most MaxEntries    *)
(* elements.                                                               *)
(***************************************************************************)
MaxEntries == 3

LocalizationOptions ==
    {NotADict, NoLocale,
     Localization(JInt(7), JInt(2)),
     Localization(JStr(""), JInt(2)),
     Localization(JStr("de"), JInt(2)),
     Localization(JStr("de"), JInt(0)),
     Localization(JStr("ga-IE"), JBool(TRUE)),
     Localization(JStr("sat"), JInt(1)),
     Localization(JStr("sat"), JStr("1"))}

RetrInit ==
    /\ fs = MakeTree([old |-> TRUE, new |-> TRUE], [old |-> <<>>, new |-> <<>>], <<>>)
    /\ SyncIdle
    /\ old_png = Corrupt
    /\ new_png = Corrupt
    /\ verdict = "none"
    /\ \/ project = NoProject
       \/ project = [ok |-> TRUE, is_list |-> FALSE, localizations |-> <<>>]
       \/ \E k \in 0..MaxEntries :
             \E locs \in [1..k -> LocalizationOptions] :
                project = [ok |-> TRUE, is_list |-> TRUE, localizations |-> locs]
    /\ RetrIdle

RetrSpec == RetrInit /\ [][RetrNext]_vars

(***************************************************************************)
(* Vocabulary of the properties, read off the trees themselves.            *)
(***************************************************************************)
HiddenNames == {".h", ".s.png"}
PngNames == {"p.png", "Q.PNG", "r.png"}

\* the folders directly under a root
Folders(f, root) ==
    {q[2] : q \in {c \in DOMAIN f : Len(c) = 2 /\ c[1] = root /\ f[c].kind = "dir"}}

\* the locales of a root: its folders that are not hidden
Locales(f, root) == Folders(f, root) \ HiddenNames

\* the eligible image files of a locale folder
Eligible(f, root, l) ==
    {n \in PngNames : <<root, l, n>> \in DOMAIN f /\ f[<<root, l, n>>].kind = "file"}

\* everything at or below path p
Subtree(f, p) ==
    [q \in {c \in DOMAIN f : Len(c) >= Len(p) /\ SubSeq(c, 1, Len(p)) = p} |-> f[q]]

Under(q, p) == Len(q) >= Len(p) /\ SubSeq(q, 1, Len(p)) = p

EntriesOf(list, l) == {i \in DOMAIN list : list[i].locale = l}

ZeroCounts(st) == st.changed = 0 /\ st.added = 0 /\ st.removed = 0

RECURSIVE SumOf(_, _)
SumOf(list, field) ==
    IF list = <<>> THEN 0
    ELSE (CASE field = "changed" -> Head(list).changed
            [] field = "added"   -> Head(list).added
            [] field = "removed" -> Head(list).removed)
         + SumOf(Tail(list), field)

\* the names of O \cap N that the image oracle reports as not equivalent
Differing(f, l) ==
    {n \in Eligible(f, "old", l) \cap Eligible(f, "new", l) :
        ~Compared[<<f[<<"old", l, n>>].data, f[<<"new", l, n>>].data>>].value}

(***************************************************************************)
(* C1  Idempotence: when sync_all is run twice in succession, the second   *)
(* run reports changed = added = removed = 0 in every per-locale entry and *)
(* in the totals, and performs no copy and no delete.                      *)
(***************************************************************************)
C1_Idempotence ==
    (run = 2 /\ pc = "done") =>
        /\ \A i \in DOMAIN result.stats_list : ZeroCounts(result.stats_list[i])
        /\ ZeroCounts(result.totals)
        /\ \A j \in DOMAIN log : log[j].op \notin {"copy", "unlink"}

(***************************************************************************)
(* C2  Missing-in-new safety: for every locale folder of the old root with *)
(* no folder of the same name under the new root, nothing at or below the  *)
(* old folder is deleted, overwritten or added; the returned stats hold    *)
(* exactly one entry for it, with missing_in_new = true and all counts     *)
(* zero; and exactly one warning names the locale.                         *)
(***************************************************************************)
C2_MissingInNewSafety ==
    \A l \in Locales(fs0, "old") \ Folders(fs0, "new") :
        /\ Subtree(fs, <<"old", l>>) = Subtree(fs0, <<"old", l>>)
        /\ \A j \in DOMAIN log : ~Under(log[j].path, <<"old", l>>)
        /\ pc = "done" =>
              /\ Cardinality(EntriesOf(result.stats_list, l)) = 1
              /\ \A i \in EntriesOf(result.stats_list, l) :
                    /\ result.stats_list[i].missing_in_new
                    /\ ZeroCounts(result.stats_list[i])
                    /\ result.stats_list[i].removed_files = <<>>
              /\ Cardinality({k \in DOMAIN result.warnings :
                                 result.warnings[k] = Warning(l)}) = 1

\* a finished run that left alone a missing-in-new locale holding a file,
\* while it mutated another locale
C2_Witness ==
    /\ pc = "done"
    /\ log # <<>>
    /\ \E l \in Locales(fs0, "old") \ Folders(fs0, "new") :
          \E q \in DOMAIN fs0 : Len(q) = 3 /\ Under(q, <<"old", l>>)

(***************************************************************************)
(* C3  Set-difference correctness: for any locale whose folder exists on   *)
(* both sides, with eligible old names O and new names N, the entry has    *)
(* removed = |O \ N| (each deleted and listed as locale/filename), added = *)
(* |N \ O| (each copied under the same name), changed = the number of      *)
(* names of O \cap N the oracle reports as not equivalent (each            *)
(* overwritten), and afterwards the old locale's eligible set is N.        *)
(***************************************************************************)
C3_SetDifference ==
    pc = "done" =>
      \A l \in Locales(fs0, "old") \cap Locales(fs0, "new") :
        LET O == Eligible(fs0, "old", l)
            N == Eligible(fs0, "new", l)
        IN  /\ Cardinality(EntriesOf(result.stats_list, l)) = 1
            /\ \A i \in EntriesOf(result.stats_list, l) :
                  LET st == result.stats_list[i]
                  IN  /\ st.removed = Cardinality(O \ N)
                      /\ Range(st.removed_files)
                            = {QualifiedName(l, n) : n \in O \ N}
                      /\ st.added = Cardinality(N \ O)
                      /\ st.changed = Cardinality(Differing(fs0, l))
                      /\ ~st.missing_in_new
            /\ \A n \in O \ N : <<"old", l, n>> \notin DOMAIN fs
            /\ \A n \in (N \ O) \cup Differing(fs0, l) :
                  /\ <<"old", l, n>> \in DOMAIN fs
                  /\ fs[<<"old", l, n>>] = fs0[<<"new", l, n>>]
            /\ Eligible(fs, "old", l) = N

C5_ReportUnderFailure ==
    (pc = "raised" /\ log # <<>>) =>
        /\ result.returned
        /\ SumOf(result.stats_list, "changed") + SumOf(result.stats_list, "added")
             + SumOf(result.stats_list, "removed")
               = Cardinality({j \in DOMAIN log : log[j].op \in {"copy", "unlink"}})

(***************************************************************************)
(* C6  sync_all never creates the old root or the new root: the only       *)
(* directories a run creates are locale sub-folders of an old root that    *)
(* existed when the run began, also when it is called with an old root     *)
(* that does not exist while the new root holds locales.                   *)
(***************************************************************************)
C6_NeverCreatesRoots ==
    /\ (OLD_ROOT \in DOMAIN fs) = (OLD_ROOT \in DOMAIN fs0)
    /\ (NEW_ROOT \in DOMAIN fs) = (NEW_ROOT \in DOMAIN fs0)
    /\ \A j \in DOMAIN log :
          log[j].op = "mkdir" =>
              /\ Len(log[j].path) = 2
              /\ log[j].path[1] = "old"
              /\ OLD_ROOT \in DOMAIN fs0

(***************************************************************************)
(* C7  The new tree is read-only: no step of sync_all creates, modifies or *)
(* deletes anything at or below the new root; every mutation targets a     *)
(* path under the old root.                                                *)
(***************************************************************************)
C7_NewTreeReadOnly ==
    /\ Subtree(fs, NEW_ROOT) = Subtree(fs0, NEW_ROOT)
    /\ \A j \in DOMAIN log :
          /\ log[j].path[1] = "old"
          /\ log[j].op = "copy" => log[j].src[1] = "new"

\* a finished run that overwrote a changed file, deleted an old-only file and
\* copied a new-only file
C7_Witness ==
    /\ pc = "done"
    /\ \E i, j, k \in DOMAIN log :
          /\ log[i].kind = "changed"
          /\ log[j].kind = "removed"
          /\ log[k].kind = "added"

(***************************************************************************)
(* C8  Content difference outside the mask is always detected: for any two *)
(* images of equal dimensions that are identical inside the masked         *)
(* rectangle and differ in at least one pixel outside it,                  *)
(* same_except_time returns false.                                         *)
(***************************************************************************)
SameSize == old_png # Corrupt /\ new_png # Corrupt /\ old_png.size = new_png.size

IdenticalInsideMask ==
    \A q \in DOMAIN old_png.px :
        InMask(old_png.size[1], old_png.size[2], q[1], q[2])
            => old_png.px[q] = new_png.px[q]

DifferOutsideMask ==
    \E q \in DOMAIN old_png.px :
        /\ ~InMask(old_png.size[1], old_png.size[2], q[1], q[2])
        /\ old_png.px[q] # new_png.px[q]

C8_OutsideAlwaysDetected ==
    (verdict # "none" /\ SameSize /\ IdenticalInsideMask /\ DifferOutsideMask)
        => verdict = "different"

(***************************************************************************)
(* C8, amended: for two images of equal dimensions that are identical      *)
(* inside the masked rectangle and differ outside it, same_except_time     *)
(* returns false exactly when the difference changes at least one bit of   *)
(* the perceptual hash of the masked images; and it returns false for no   *)
(* pair of equal-size images without a difference outside the rectangle.   *)
(***************************************************************************)
C8_OutsideDetectedWhenHashChanges ==
    (verdict # "none" /\ SameSize) =>
        /\ (IdenticalInsideMask /\ DifferOutsideMask) =>
              (verdict = "different"
                   <=> masked_phash(old_png) # masked_phash(new_png))
        /\ verdict = "different" => DifferOutsideMask

\* a compared pair that differs outside the mask only, and is reported different
C8_Witness ==
    /\ verdict = "different"
    /\ SameSize
    /\ IdenticalInsideMask
    /\ DifferOutsideMask

(***************************************************************************)
(* C9  Processing order: the locales of the old root are processed in      *)
(* ascending name order; within one of them all overwrites of changed      *)
(* files (ascending by name) precede all deletions of old-only files       *)
(* (ascending), which precede all copies of new-only files (ascending);    *)
(* the new-only locales are bootstrapped after every old locale, in        *)
(* ascending name order; the per-locale list is the old-locale entries     *)
(* followed by the new-only-locale entries.                                *)
(***************************************************************************)
FileOps == {j \in DOMAIN log : log[j].op \in {"copy", "unlink"}}

OpLocale(j) == log[j].path[2]
OpName(j) == log[j].path[3]
OpPhase(j) == IF OpLocale(j) \in Locales(fs0, "old") THEN 0 ELSE 1
OpRank(j) ==
    CASE log[j].kind = "changed"   -> 1
      [] log[j].kind = "removed"   -> 2
      [] log[j].kind = "added"     -> 3
      [] log[j].kind = "bootstrap" -> 4

C9_ProcessingOrder ==
    /\ \A j \in FileOps :
          LET l == OpLocale(j)
              O == Eligible(fs0, "old", l)
              N == Eligible(fs0, "new", l)
          IN  CASE log[j].kind = "changed" ->
                     log[j].op = "copy" /\ OpPhase(j) = 0 /\ OpName(j) \in O \cap N
                [] log[j].kind = "removed" ->
                     log[j].op = "unlink" /\ OpPhase(j) = 0 /\ OpName(j) \in O \ N
                [] log[j].kind = "added" ->
                     log[j].op = "copy" /\ OpPhase(j) = 0 /\ OpName(j) \in N \ O
                [] log[j].kind = "bootstrap" ->
                     log[j].op = "copy" /\ OpPhase(j) = 1 /\ OpName(j) \in N
    /\ \A i, j \in FileOps :
          i < j =>
             \/ OpPhase(i) < OpPhase(j)
             \/ OpPhase(i) = OpPhase(j) /\ StrLess(OpLocale(i), OpLocale(j))
             \/ OpLocale(i) = OpLocale(j) /\ OpRank(i) < OpRank(j)
             \/ /\ OpLocale(i) = OpLocale(j)
                /\ OpRank(i) = OpRank(j)
                /\ StrLess(OpName(i), OpName(j))
    /\ \A i, j \in DOMAIN stats_list :
          i < j =>
             LET li == stats_list[i].locale
                 lj == stats_list[j].locale
                 oi == li \in Locales(fs0, "old")
                 oj == lj \in Locales(fs0, "old")
             IN  \/ oi /\ ~oj
                 \/ oi = oj /\ StrLess(li, lj)
    /\ (\E j \in DOMAIN log : log[j].kind = "bootstrap") =>
          Locales(fs0, "old") \subseteq {stats_list[i].locale : i \in DOMAIN stats_list}
    /\ pc = "done" =>
          /\ result.stats_list = stats_list
          /\ {stats_list[i].locale : i \in DOMAIN stats_list}
                = Locales(fs0, "old") \cup Locales(fs0, "new")

\* a finished run that, in one old locale, first overwrote a changed file, then
\* deleted an old-only file, then copied a new-only file
C9_Witness ==
    /\ pc = "done"
    /\ \E i, j, k \in FileOps :
          /\ i < j /\ j < k
          /\ OpLocale(i) = OpLocale(j) /\ OpLocale(j) = OpLocale(k)
          /\ OpRank(i) = 1 /\ OpRank(j) = 2 /\ OpRank(k) = 3
    /\ Len(stats_list) = 1

Occurrences(list, x) == Cardinality({i \in DOMAIN list : list[i] = x})

\* the locales of a failed list
FailedLocales(f) == [i \in DOMAIN f |-> f[i].locale]

\* the outcomes of a download that process provides for
HandledOutcomes ==
    {"request exception", "404", "other status", "extracted", "BadZipFile",
     "OSError", "ZipSlipError"}

\* the list an outcome sends its locale to
ListOf(kind, p, n, f) ==
    IF kind = "extracted" THEN p
    ELSE IF kind = "404" THEN n
    ELSE FailedLocales(f)

(***************************************************************************)
(* C11  In process, whatever the outcome of each download (request         *)
(* exception, 404, another non-200 status, 200 and a successful            *)
(* extraction, 200 and a BadZipFile / OSError / ZipSlipError during the    *)
(* extraction), every eligible locale ends up in exactly one of processed, *)
(* not_found and failed, exactly once, in the list its outcome names; such *)
(* an outcome never stops the loop, which goes on to the locales after it; *)
(* and the three lists of the returned summary together cover              *)
(* eligible_locales.                                                       *)
(***************************************************************************)
C11_LocalePartition ==
    /\ rpc \in {"looping", "done"} =>
          /\ \A l \in Range(elig) :
                Occurrences(processed, l) + Occurrences(not_found, l)
                + Occurrences(FailedLocales(failed), l)
                + Occurrences(rest, l) = 1
          /\ Range(processed) \cup Range(not_found)
             \cup Range(FailedLocales(failed)) \subseteq Range(elig)
          /\ Len(outcomes) + Len(rest) = Len(elig)
          /\ \A i \in DOMAIN outcomes :
                /\ outcomes[i].locale = elig[i]
                /\ outcomes[i].kind \in HandledOutcomes
                /\ outcomes[i].locale \in
                      Range(ListOf(outcomes[i].kind, processed, not_found, failed))
    /\ rpc = "raised" /\ outcomes # <<>> =>
          outcomes[Len(outcomes)].kind \notin HandledOutcomes
    /\ rpc = "done" =>
          /\ summary.returned
          /\ summary.eligible_locales = elig
          /\ \A l \in Range(summary.eligible_locales) :
                Occurrences(summary.processed_locales, l)
                + Occurrences(summary.not_found_locales, l)
                + Occurrences(FailedLocales(summary.failed_locales), l) = 1
          /\ Range(summary.processed_locales)
             \cup Range(summary.not_found_locales)
             \cup Range(FailedLocales(summary.failed_locales))
             = Range(summary.eligible_locales)

\* a returned summary of three locales: the first failed in the extraction,
\* the second was not found, the third was extracted
C11_Witness ==
    /\ rpc = "done"
    /\ Len(summary.eligible_locales) = 3
    /\ outcomes[1].kind = "ZipSlipError"
    /\ outcomes[2].kind = "404"
    /\ outcomes[3].kind = "extracted"
    /\ summary.processed_locales = <<elig[3]>>
    /\ summary.not_found_locales = <<elig[2]>>
    /\ FailedLocales(summary.failed_locales) = <<elig[1]>>

=============================================================================
